---- MODULE Spec2Model ----
(***************************************************************************)
(* A model of twcss-to-sass (src/src/twcss-to-sass.ts): the conversion of  *)
(* a parsed HTML tree into nested SASS text, and the process-wide options  *)
(* object that convertToSass merges its argument into.                     *)
(*                                                                         *)
(* Representation.  A JS string is a sequence of fragments whose           *)
(* concatenation is the string; every string whose length the code looks   *)
(* at (comments, slugs, prefix, suffix) is a sequence of one-character     *)
(* fragments.  A value of type string | null is Null or Some(string).      *)
(* A node is a record; a property the parser leaves undefined is a field   *)
(* the record does not have.  Object identity of the parsed nodes is the   *)
(* field id, the path of child indexes from the root.                      *)
(***************************************************************************)
EXTENDS Integers, Sequences, FiniteSets, TLC

\* Largest number of nodes of a generated input tree.
MaxNodes == 4

----------------------------------------------------------------------------
\* string | null

Null == <<>>
Some(v) == <<v>>
IsNull(o) == o = <<>>
Val(o) == o[1]
\* JS truthiness of a string | null value: neither null nor ''.
Truthy(o) == o # <<>> /\ o[1] # <<>>

\* filterAttributes: IAttribute | null
NullAttributes == [isNull |-> TRUE]

RECURSIVE Reverse(_)
Reverse(s) == IF s = <<>> THEN <<>> ELSE Append(Reverse(Tail(s)), Head(s))

\* Array.prototype.join over strings.
RECURSIVE Join(_, _)
Join(list, sep) ==
  IF list = <<>> THEN <<>>
  ELSE IF Len(list) = 1 THEN list[1]
  ELSE list[1] \o sep \o Join(Tail(list), sep)

----------------------------------------------------------------------------
\* Utils.cleanText (src/utils/utils.ts is not part of the given sources).

CommentDelimiters == {"<!--", "-->", "/*", "*/"}

RECURSIVE CollapseSpaces(_)
CollapseSpaces(s) ==
  IF Len(s) < 2 THEN s
  ELSE IF s[1] = " " /\ s[2] = " " THEN CollapseSpaces(Tail(s))
  ELSE <<s[1]>> \o CollapseSpaces(Tail(s))

RECURSIVE TrimLeft(_)
TrimLeft(s) == IF s # <<>> /\ s[1] = " " THEN TrimLeft(Tail(s)) ELSE s

Trim(s) == Reverse(TrimLeft(Reverse(TrimLeft(s))))

cleanText(text, cleanComments) ==
  LET stripped == IF cleanComments
                  THEN SelectSeq(text, LAMBDA c : c \notin CommentDelimiters)
                  ELSE text
      cleaned == Trim(CollapseSpaces(stripped))
  IN IF cleaned = <<>> THEN Null ELSE Some(cleaned)

\* Utils.addMissingSuffix
addMissingSuffix(text, suffix) ==
  IF text # <<>> /\ text[Len(text)] = suffix THEN text ELSE Append(text, suffix)

----------------------------------------------------------------------------
\* The nodes himalaya's parse returns.

TextNode(c) == [type |-> "text", content |-> c]
CommentNode(c) == [type |-> "comment", content |-> c]
ElementNode(tag, attrs, kids) ==
  [type |-> "element", tagName |-> tag, attributes |-> attrs, children |-> kids]
StyleElement(css) == ElementNode("style", <<>>, <<TextNode(css)>>)

IsArray(node, field) == field \in DOMAIN node
TypeOf(node) == IF "type" \in DOMAIN node THEN node.type ELSE "undefined"
TagNameOf(node) == IF "tagName" \in DOMAIN node THEN node.tagName ELSE "undefined"

\* Every object parse creates is distinct from every other: id is its path.
RECURSIVE WithIds(_, _)
WithIds(nodes, path) ==
  [i \in 1..Len(nodes) |->
     LET n == nodes[i]
         p == Append(path, i)
     IN IF "children" \in DOMAIN n
        THEN [type |-> n.type, tagName |-> n.tagName, attributes |-> n.attributes,
              children |-> WithIds(n.children, p), id |-> p]
        ELSE [type |-> n.type, content |-> n.content, id |-> p]]

parse(markup) == WithIds(markup, <<>>)

----------------------------------------------------------------------------
\* getAttributes

FindValue(attrs, key) ==
  LET hits == SelectSeq(attrs, LAMBDA a : a.key = key)
  IN IF hits = <<>> THEN Null ELSE hits[1].value

getAttributes(node, keys) ==
  IF ~IsArray(node, "attributes") THEN NullAttributes
  ELSE LET kept == SelectSeq(node.attributes, LAMBDA a : a.key \in keys)
           _attributes == [i \in 1..Len(kept) |->
                             [key |-> kept[i].key,
                              value |-> cleanText(kept[i].value, FALSE)]]
       IN [isNull |-> FALSE,
           style |-> FindValue(_attributes, "style"),
           class |-> FindValue(_attributes, "class")]

\* getStyleContents
getStyleContents(styleElements) ==
  [i \in 1..Len(styleElements) |->
     LET element == styleElements[i]
         styleContents == Join([j \in 1..Len(element.children) |->
                                  element.children[j].content], <<>>)
     IN [tagName |-> "style", text |-> "STYLE",
         filterAttributes |-> [isNull |-> FALSE, style |-> Some(styleContents)],
         id |-> element.id]]

----------------------------------------------------------------------------
\* filterHtmlData

FilterNull == [isNull |-> TRUE, nodes |-> <<>>]

\* node.children is an array or undefined, never null.
ChildrenIsNull(node) == FALSE

previousNodesOf(parentNode, i) ==
  (IF i - 1 >= 1 THEN <<parentNode[i - 1]>> ELSE <<>>)
  \o (IF i - 2 >= 1 THEN <<parentNode[i - 2]>> ELSE <<>>)

\* commentOf without the reverse() of line 156.
commentOfUnreversed(previousNodes) ==
  LET comments == SelectSeq(previousNodes, LAMBDA x : x.type = "comment")
      cleaned == [j \in 1..Len(comments) |-> cleanText(comments[j].content, TRUE)]
      kept == SelectSeq(cleaned, LAMBDA x : ~IsNull(x))
      texts == [j \in 1..Len(kept) |-> Val(kept[j])]
  IN Join(texts, <<",", " ">>)

commentOf(previousNodes) ==
  LET comments == SelectSeq(previousNodes, LAMBDA x : x.type = "comment")
      cleaned == [j \in 1..Len(comments) |-> cleanText(comments[j].content, TRUE)]
      kept == SelectSeq(cleaned, LAMBDA x : ~IsNull(x))
      texts == [j \in 1..Len(kept) |-> Val(kept[j])]
  IN Join(Reverse(texts), <<",", " ">>)

RECURSIVE filterHtmlData(_, _)
filterHtmlData(htmlJson, nestedOrder) ==
  LET parentNode == SelectSeq(htmlJson, LAMBDA x :
                      (x.type = "element" \/ x.type = "comment")
                      /\ TagNameOf(x) # "style")
      styleElements == SelectSeq(htmlJson, LAMBDA x : TagNameOf(x) = "style")
      styleList == IF Len(styleElements) > 0 THEN getStyleContents(styleElements)
                   ELSE <<>>
      visit(i) ==
        LET node == parentNode[i]
            attrs == getAttributes(node, {"class", "style"})
        IN IF IsArray(node, "children")
           THEN LET children == filterHtmlData(node.children, nestedOrder + 1)
                IN [type |-> node.type, tagName |-> node.tagName,
                    attributes |-> node.attributes, id |-> node.id,
                    comment |-> commentOf(previousNodesOf(parentNode, i)),
                    order |-> nestedOrder,
                    children |-> IF ~children.isNull /\ Len(children.nodes) > 0
                                 THEN SelectSeq(children.nodes,
                                                LAMBDA x : TypeOf(x) = "element")
                                 ELSE node.children,
                    filterAttributes |-> attrs]
           ELSE [type |-> node.type, content |-> node.content, id |-> node.id,
                 filterAttributes |-> attrs]
      visited == [i \in 1..Len(parentNode) |-> visit(i)]
      elementList == SelectSeq(visited, LAMBDA n :
                       ~n.filterAttributes.isNull \/ ~ChildrenIsNull(n))
  IN IF Len(parentNode) > 0 /\ Len(elementList) > 0
     THEN [isNull |-> FALSE, nodes |-> styleList \o elementList]
     ELSE FilterNull

----------------------------------------------------------------------------
\* The options object.

DefaultMaxClassNameLength == 50

InitialOptions ==
  [formatOutput |-> TRUE,
   useCommentBlocksAsClassName |-> FALSE,
   maxClassNameLength |-> DefaultMaxClassNameLength,
   printComments |-> TRUE,
   formatterOptions |-> "formatterOptions",
   classNameOptions |-> [lowercase |-> TRUE, replaceWith |-> "-",
                         prefix |-> <<>>, suffix |-> <<>>]]

\* { ...b, ...a }: the spread with its operands swapped.
SpreadSwapped(a, b) ==
  [k \in DOMAIN a \cup DOMAIN b |-> IF k \in DOMAIN a THEN a[k] ELSE b[k]]

\* { ...a, ...b }
Spread(a, b) ==
  [k \in DOMAIN a \cup DOMAIN b |-> IF k \in DOMAIN b THEN b[k] ELSE a[k]]

\* A string property read from an object that may not have it.
Undefined == <<"u", "n", "d", "e", "f", "i", "n", "e", "d">>
StringField(obj, field) == IF field \in DOMAIN obj THEN obj[field] ELSE Undefined

----------------------------------------------------------------------------
\* slug(text, { lower, replacement }) of the slug package: letters are kept
\* (lower-cased on request), white space becomes the replacement, any other
\* character is dropped, and the result is trimmed.

Letters == {"a", "b", "A", "B"}
ToLower(c) == IF c = "A" THEN "a" ELSE IF c = "B" THEN "b" ELSE c

slug(text, lower, replacement) ==
  LET trimmed == Trim(CollapseSpaces(
                   SelectSeq(text, LAMBDA c : c = " " \/ c \in Letters)))
  IN [i \in 1..Len(trimmed) |->
        IF trimmed[i] = " " THEN replacement
        ELSE IF lower THEN ToLower(trimmed[i]) ELSE trimmed[i]]

----------------------------------------------------------------------------
\* The text getSassTree builds, as the sequence of the pieces it concatenates;
\* id names the node a piece was built for.

Piece(t, s, id) == [t |-> t, s |-> s, id |-> id]

HasComment(node) == "comment" \in DOMAIN node /\ node.comment # <<>>

\* getClassName
getClassName(node, deepth, cfg) ==
  LET classComment ==
        IF cfg.printComments
        THEN <<Piece("comment",
                     <<"/* ">>
                     \o (IF HasComment(node) THEN node.comment ELSE <<node.tagName>>)
                     \o <<" -> ", ToString(node.order), " */">>,
                     node.id)>>
        ELSE <<>>
      cno == cfg.classNameOptions
      prefixed == StringField(cno, "prefix")
                  \o slug(node.comment,
                          "lowercase" \in DOMAIN cno /\ cno.lowercase,
                          IF "replaceWith" \in DOMAIN cno THEN cno.replaceWith ELSE "-")
      cut == IF Len(prefixed) > cfg.maxClassNameLength
             THEN SubSeq(prefixed, 1, cfg.maxClassNameLength)
             ELSE prefixed
      classSlug == cut \o StringField(cno, "suffix")
      className ==
        IF HasComment(node) /\ cfg.useCommentBlocksAsClassName
        THEN <<".">> \o classSlug
        ELSE IF node.tagName # "div" THEN <<node.tagName>>
        ELSE <<".class-", node.tagName, "-", ToString(deepth)>>
  IN classComment \o <<Piece("selector", className, node.id)>>

\* node.filterAttributes is an object (neither undefined nor null).
HasFilterAttributes(node) ==
  "filterAttributes" \in DOMAIN node /\ ~node.filterAttributes.isNull
FilterAttributesIsNull(node) ==
  "filterAttributes" \in DOMAIN node /\ node.filterAttributes.isNull
HasChildren(node) == IsArray(node, "children") /\ Len(node.children) > 0

\* ++deepth for a node with children (lines 258-259); the value is the one
\* the following siblings see.
incrementDeepthNever(deepth, node) == deepth
incrementDeepth(deepth, node) == IF HasChildren(node) THEN deepth + 1 ELSE deepth

\* The selector block of lines 292-296, with the nested text after the
\* closing brace instead of before it.
blockUnnested(name, treeSTring, subTreeSTring, id) ==
  name \o <<Piece("{", <<"{">>, id)>> \o treeSTring
       \o <<Piece("}", <<"}">>, id)>> \o subTreeSTring

\* The selector block of lines 292-296.
block(name, treeSTring, subTreeSTring, id) ==
  name \o <<Piece("{", <<"{">>, id)>> \o treeSTring \o subTreeSTring
       \o <<Piece("}", <<"}">>, id)>>

\* getSassTree over a list of nodes; the recursive call getSassTree(node,
\* deepth) of line 261 continues with node.children (line 246) and is written
\* getSassTree(node.children, deepth).  mapNodes is the map over nodeTree from
\* index i on, with the values deepth and styleCount have when the callback
\* reaches node i.
RECURSIVE getSassTree(_, _, _), mapNodes(_, _, _, _, _)
getSassTree(nodeTree, deepth, cfg) == mapNodes(nodeTree, 1, deepth, 0, cfg)

mapNodes(nodeTree, i, deepth0, styleCount0, cfg) ==
  IF i > Len(nodeTree) THEN <<>>
  ELSE
    LET node == nodeTree[i]
        skipped == FilterAttributesIsNull(node) /\ ChildrenIsNull(node)
        deepth == IF skipped THEN deepth0 ELSE incrementDeepth(deepth0, node)
        subTreeSTring == IF ~skipped /\ HasChildren(node)
                         THEN getSassTree(node.children, deepth, cfg)
                         ELSE <<>>
        isStyle == ~skipped /\ TagNameOf(node) = "style" /\ HasFilterAttributes(node)
        styleCount == IF isStyle THEN styleCount0 + 1 ELSE styleCount0
        fa == node.filterAttributes
        applyPart == IF HasFilterAttributes(node) /\ Truthy(fa.class)
                     THEN <<Piece("apply", <<"@apply ">> \o Val(fa.class) \o <<";">>,
                                  node.id)>>
                     ELSE <<>>
        stylePart == IF HasFilterAttributes(node) /\ Truthy(fa.style)
                     THEN <<Piece("style",
                                  <<"\n">> \o addMissingSuffix(Val(fa.style), ";")
                                  \o <<"\n">>, node.id)>>
                     ELSE <<>>
        treeSTring == applyPart \o stylePart
        result ==
          IF skipped THEN <<>>
          ELSE IF isStyle
          THEN << Piece("region", <<"// #region STYLE #", ToString(styleCount), "\n">>,
                        node.id),
                  Piece("text", <<"\n">> \o Val(fa.style) \o <<"\n">>, node.id),
                  Piece("endregion", <<"// #endregion\n\n">>, node.id) >>
          ELSE IF Len(treeSTring) > 0 \/ Len(subTreeSTring) > 0
          THEN block(getClassName(node, deepth, cfg), treeSTring, subTreeSTring,
                     node.id)
          ELSE <<>>
    IN result \o mapNodes(nodeTree, i + 1, deepth, styleCount, cfg)

----------------------------------------------------------------------------
\* The html argument of convertToSass is the markup as the forest of nodes it
\* denotes: '' is the empty forest, a blank string is one white-space text.

\* Utils.cleanText applied to the whole markup: white space is collapsed
\* everywhere and trimmed at both ends of the string.
RECURSIVE CollapseMarkup(_)
CollapseMarkup(nodes) ==
  [i \in 1..Len(nodes) |->
     LET n == nodes[i]
     IN IF "children" \in DOMAIN n
        THEN ElementNode(n.tagName,
                         [j \in 1..Len(n.attributes) |->
                            [key |-> n.attributes[j].key,
                             value |-> CollapseSpaces(n.attributes[j].value)]],
                         CollapseMarkup(n.children))
        ELSE [type |-> n.type, content |-> CollapseSpaces(n.content)]]

TrimMarkupLeft(nodes) ==
  IF nodes # <<>> /\ nodes[1].type = "text"
  THEN LET c == TrimLeft(nodes[1].content)
       IN IF c = <<>> THEN Tail(nodes) ELSE <<TextNode(c)>> \o Tail(nodes)
  ELSE nodes

TrimMarkupRight(nodes) ==
  IF nodes # <<>> /\ nodes[Len(nodes)].type = "text"
  THEN LET c == Reverse(TrimLeft(Reverse(nodes[Len(nodes)].content)))
           front == SubSeq(nodes, 1, Len(nodes) - 1)
       IN IF c = <<>> THEN front ELSE Append(front, TextNode(c))
  ELSE nodes

cleanHtml(markup) ==
  LET cleaned == TrimMarkupRight(TrimMarkupLeft(CollapseMarkup(markup)))
  IN IF cleaned = <<>> THEN Null ELSE Some(cleaned)

----------------------------------------------------------------------------
\* State.

VARIABLES
  pc,                \* "idle": no call in progress; "done": a call has returned
  defaultOptions,    \* the module-level options object
  html,              \* the html argument of the last call
  htmlJson,          \* what parse returned in the last call
  options,           \* its options argument: Null or Some(object)
  filteredHtmlData,  \* what filterHtmlData returned in the last call
  sassTreeResult,    \* what getSassTree returned in the last call
  result,            \* what the last call returned
  invoked            \* the functions the last call invoked

vars == <<pc, defaultOptions, html, options, htmlJson, filteredHtmlData,
          sassTreeResult, result, invoked>>

\* What convertToSass returns: null, a string (formatted: the text is what
\* the formatter and Utils.fixFomatterApplyIssue make of the pieces), or
\* nothing because the parser threw.
ReturnNull == [kind |-> "null", text |-> <<>>, formatted |-> FALSE]
Thrown == [kind |-> "throw", text |-> <<>>, formatted |-> FALSE]
ReturnString(text, formatted) ==
  [kind |-> "string", text |-> text, formatted |-> formatted]
NoResult == [kind |-> "none", text |-> <<>>, formatted |-> FALSE]

Init ==
  /\ pc = "idle"
  /\ defaultOptions = InitialOptions
  /\ html = <<>>
  /\ options = Null
  /\ htmlJson = <<>>
  /\ filteredHtmlData = FilterNull
  /\ sassTreeResult = <<>>
  /\ result = NoResult
  /\ invoked = {}

\* convertToSass(h, o).  parseOfNull is what himalaya's parse does when the
\* cleaned html is null: it throws, or it returns no node.  The values of
\* the locals htmlJson, filteredHtmlData and sassTreeResult are bound once.
convertToSass(h, o, parseOfNull) ==
  /\ pc = "idle"
  /\ pc' = "done"
  /\ html' = h
  /\ options' = o
  /\ IF h # <<>>
     THEN
       LET cfg == IF o # Null THEN Spread(defaultOptions, Val(o)) ELSE defaultOptions
           cleaned == cleanHtml(h)
       IN /\ defaultOptions' = cfg
          /\ IF IsNull(cleaned) /\ parseOfNull = "throw"
             THEN /\ invoked' = {"cleanText", "parse"}
                  /\ htmlJson' = <<>>
                  /\ filteredHtmlData' = FilterNull
                  /\ sassTreeResult' = <<>>
                  /\ result' = Thrown
             ELSE
               \E parsed \in {IF IsNull(cleaned) THEN <<>> ELSE parse(Val(cleaned))} :
               \E filtered \in {filterHtmlData(parsed, 1)} :
               \E tree \in {IF filtered.isNull THEN <<>>
                             ELSE getSassTree(filtered.nodes, 0, cfg)} :
                  /\ htmlJson' = parsed
                  /\ filteredHtmlData' = filtered
                  /\ IF ~filtered.isNull
                     THEN /\ sassTreeResult' = tree
                          /\ IF cfg.formatOutput = TRUE
                             THEN /\ result' = ReturnString(tree, TRUE)
                                  /\ invoked' = {"cleanText", "parse", "filterHtmlData",
                                                 "getSassTree", "beautifyCss"}
                             ELSE /\ result' = ReturnString(tree, FALSE)
                                  /\ invoked' = {"cleanText", "parse", "filterHtmlData",
                                                 "getSassTree"}
                     ELSE /\ sassTreeResult' = <<>>
                          /\ result' = ReturnNull
                          /\ invoked' = {"cleanText", "parse", "filterHtmlData"}
     ELSE /\ defaultOptions' = defaultOptions
          /\ htmlJson' = <<>>
          /\ filteredHtmlData' = FilterNull
          /\ sassTreeResult' = <<>>
          /\ result' = ReturnNull
          /\ invoked' = {}

\* The caller takes the returned value; the next call may start.
Return ==
  /\ pc = "done"
  /\ pc' = "idle"
  /\ html' = <<>>
  /\ options' = Null
  /\ htmlJson' = <<>>
  /\ filteredHtmlData' = FilterNull
  /\ sassTreeResult' = <<>>
  /\ result' = NoResult
  /\ invoked' = {}
  /\ UNCHANGED defaultOptions

----------------------------------------------------------------------------
\* Inputs.

Attr(k, v) == [key |-> k, value |-> v]
Div(attrs, kids) == ElementNode("div", attrs, kids)

\* An option value for maxClassNameLength shorter than the generated slugs.
ShortClassNameLength == 2

FullClassNameOptions ==
  [lowercase |-> TRUE, replaceWith |-> "-", prefix |-> <<"p">>, suffix |-> <<"s">>]

OptionObjects ==
  { [x \in {} |-> TRUE],
    [formatOutput |-> FALSE],
    [useCommentBlocksAsClassName |-> TRUE],
    [maxClassNameLength |-> ShortClassNameLength],
    [printComments |-> FALSE],
    [classNameOptions |-> FullClassNameOptions],
    [classNameOptions |-> [prefix |-> <<"p">>]],
    [useCommentBlocksAsClassName |-> TRUE,
     classNameOptions |-> [lowercase |-> FALSE, replaceWith |-> "_",
                           prefix |-> <<>>, suffix |-> <<>>]] }

OptionArguments == {Null} \cup {Some(o) : o \in OptionObjects}

\* What himalaya's parse can do with the cleaned html: given null it throws
\* or returns no node, given markup it returns the nodes.
ParseOutcomes(h) ==
  IF IsNull(cleanHtml(h)) THEN {"throw", "empty"} ELSE {"nodes"}

\* '', ' ', <!-- A, b --><div class="c"></div>, <div></div>,
\* <span class="c" style="s"></span>, <style>T</style>,
\* <!-- b --><!-- A b --><div class=" c "><div style="s;"> </div></div>
SmallHtmls ==
  { <<>>,
    <<TextNode(<<" ">>)>>,
    <<CommentNode(<<" ", "A", ",", " ", "b", " ">>), Div(<<Attr("class", <<"c">>)>>, <<>>)>>,
    <<Div(<<>>, <<>>)>>,
    <<ElementNode("span", <<Attr("class", <<"c">>), Attr("style", <<"s">>)>>, <<>>)>>,
    <<StyleElement(<<"T">>)>>,
    <<CommentNode(<<" ", "b", " ">>), CommentNode(<<" ", "A", " ", "b", " ">>),
      Div(<<Attr("class", <<" ", "c", " ">>)>>,
          <<Div(<<Attr("style", <<"s", ";">>)>>, <<TextNode(<<" ">>)>>)>>)>> }

\* A caller calls convertToSass with an html of one of the sets htmls[n] and
\* an argument of arguments.
Call(htmls, arguments) ==
  /\ pc = "idle"
  /\ \E n \in DOMAIN htmls :
       \E h \in htmls[n], o \in arguments :
         \E p \in ParseOutcomes(h) : convertToSass(h, o, p)

Next ==
  \/ Call(<<SmallHtmls>>, OptionArguments)
  \/ Return

Spec == Init /\ [][Next]_vars

----------------------------------------------------------------------------
\* Generated inputs: every forest of at most MaxNodes nodes built from the
\* given leaves and from <div> elements with the given attribute lists
\* (a <style> element with its text counts as one node), as the sequence of
\* the sets of forests of 0, 1, ..., MaxNodes nodes.

\* The trees of exactly n nodes, given table[m + 1] = the forests of exactly
\* m nodes for every m < n.
TreesOf(n, table, leaves, attributes) ==
  IF n = 1 THEN leaves \cup { Div(a, <<>>) : a \in attributes }
  ELSE { Div(a, kids) : a \in attributes, kids \in table[n] }

\* <<the forests of exactly 0 nodes, ..., the forests of exactly n nodes>>
RECURSIVE ForestTable(_, _, _)
ForestTable(n, leaves, attributes) ==
  IF n = 0 THEN << {<<>>} >>
  ELSE LET table == ForestTable(n - 1, leaves, attributes)
       IN Append(table,
                 UNION { { <<t>> \o f : t \in TreesOf(k, table, leaves, attributes),
                                        f \in table[n - k + 1] } :
                         k \in 1..n })

Forests(leaves, attributes) == ForestTable(MaxNodes, leaves, attributes)

TreeOptionArguments == { Null, Some([useCommentBlocksAsClassName |-> TRUE]) }

\* Structure: text, comment and <style> leaves, <div> with and without class.
StructuredHtmls ==
  Forests({ TextNode(<<" ">>), CommentNode(<<" ", "A", " ">>), StyleElement(<<"T">>) },
          { <<>>, <<Attr("class", <<"c">>)>> })

NextTree ==
  \/ Call(StructuredHtmls, TreeOptionArguments)
  \/ Return

SpecTree == Init /\ [][NextTree]_vars

\* Comments: text leaves, comments with two texts and a blank one, <div class>.
CommentedHtmls ==
  Forests({ TextNode(<<" ">>), CommentNode(<<" ", "A", " ">>), CommentNode(<<"b">>),
            CommentNode(<<" ">>) },
          { <<Attr("class", <<"c">>)>> })

NextComments ==
  \/ Call(CommentedHtmls, TreeOptionArguments)
  \/ Return

SpecComments == Init /\ [][NextComments]_vars

----------------------------------------------------------------------------
\* Properties.

Called == pc = "done"
Returned == pc = "done" /\ result.kind # "throw"

Min(a, b) == IF a < b THEN a ELSE b

\* The normalized node that was made of the parsed element id, searched from
\* the given level of the normalized tree on.
RECURSIVE NodeAt(_, _, _)
NodeAt(nodes, id, level) ==
  LET i == CHOOSE k \in 1..Len(nodes) :
             TypeOf(nodes[k]) = "element" /\ nodes[k].id = SubSeq(id, 1, level)
  IN IF level = Len(id) THEN nodes[i] ELSE NodeAt(nodes[i].children, id, level + 1)

NormalizedNode(id) == NodeAt(filteredHtmlData.nodes, id, 1)

\* The ids of the blocks that are open just before piece j of out, outermost
\* first.
RECURSIVE OpenBlocks(_, _)
OpenBlocks(out, j) ==
  IF j = 1 THEN <<>>
  ELSE LET open == OpenBlocks(out, j - 1)
           piece == out[j - 1]
       IN IF piece.t = "{" THEN Append(open, piece.id)
          ELSE IF piece.t = "}" THEN SubSeq(open, 1, Len(open) - 1)
          ELSE open

\* The ids of the ancestors of the parsed node id, outermost first: all of
\* them are elements, only elements have children.
Ancestors(id) == [m \in 1..(Len(id) - 1) |-> SubSeq(id, 1, m)]

\* C3: in the text getSassTree returns, the selector blocks that enclose the
\* block of an element are exactly the blocks of its element ancestors in the
\* parsed tree, outermost first: as many blocks as ancestors, every ancestor
\* with a block of its own, and no block of a node that is not an ancestor.
C3_BlocksNestAsElements ==
  Called =>
    \A j \in 1..Len(sassTreeResult) :
      sassTreeResult[j].t = "{" =>
        OpenBlocks(sassTreeResult, j) = Ancestors(sassTreeResult[j].id)

\* A nested element has emitted its block inside the block of its parent,
\* after the block of an earlier element had been closed.
C3_Witness ==
  /\ Called
  /\ \E j \in 1..Len(sassTreeResult) :
       /\ sassTreeResult[j].t = "{"
       /\ Len(sassTreeResult[j].id) >= 2
       /\ Len(OpenBlocks(sassTreeResult, j)) >= 1
       /\ \E i \in 1..(j - 1) : sassTreeResult[i].t = "}"

\* The value of deepth getSassTree has when it names the normalized node of
\* id: the depth the call over its sibling list was entered with, plus the
\* number of siblings up to it that have non-empty children.
RECURSIVE DeepthAt(_, _, _, _)
DeepthAt(nodes, d0, id, level) ==
  LET i == CHOOSE k \in 1..Len(nodes) :
             TypeOf(nodes[k]) = "element" /\ nodes[k].id = SubSeq(id, 1, level)
      k == d0 + Cardinality({ j \in 1..i :
                                /\ "children" \in DOMAIN nodes[j]
                                /\ nodes[j].children # <<>> })
  IN IF level = Len(id) THEN k ELSE DeepthAt(nodes[i].children, k, id, level + 1)

FallbackNamed(node) ==
  /\ node.tagName = "div"
  /\ node.comment = <<>> \/ ~defaultOptions.useCommentBlocksAsClassName

\* C9: a div that emits a block and has no derived comment, or is named while
\* useCommentBlocksAsClassName is false, gets the selector .class-div-<k>,
\* k = the depth its sibling list was entered with (0 at the top level, the
\* parent's k below) + the number of siblings up to and including it that
\* have non-empty children.
C9_FallbackNameCountsSiblings ==
  Called =>
    \A j \in 1..Len(sassTreeResult) :
      (sassTreeResult[j].t = "selector"
       /\ FallbackNamed(NormalizedNode(sassTreeResult[j].id))) =>
        sassTreeResult[j].s =
          <<".class-", "div", "-",
            ToString(DeepthAt(filteredHtmlData.nodes, 0, sassTreeResult[j].id, 1))>>

\* A nested div that is not the first of its siblings is named
\* .class-div-2: its list was entered with 1 and one sibling up to it has
\* children.
C9_Witness ==
  /\ Called
  /\ \E j \in 1..Len(sassTreeResult) :
       /\ sassTreeResult[j].t = "selector"
       /\ Len(sassTreeResult[j].id) = 2
       /\ sassTreeResult[j].id[2] >= 2
       /\ NormalizedNode(sassTreeResult[j].id).children = <<>>
       /\ sassTreeResult[j].s = <<".class-", "div", "-", "2">>

\* The parent candidates of a level of the parsed tree.
Candidates(nodes) ==
  SelectSeq(nodes, LAMBDA x : x.type \in {"element", "comment"}
                              /\ TagNameOf(x) # "style")

\* The cleaned text of candidate k when it is a comment with a non-empty one.
CommentText(candidates, k) ==
  IF k >= 1 /\ candidates[k].type = "comment"
            /\ ~IsNull(cleanText(candidates[k].content, TRUE))
  THEN << Val(cleanText(candidates[k].content, TRUE)) >>
  ELSE <<>>

RECURSIVE CommentsDerived(_)
CommentsDerived(nodes) ==
  LET candidates == Candidates(nodes)
  IN \A i \in 1..Len(candidates) :
       candidates[i].type = "element" =>
         /\ NormalizedNode(candidates[i].id).comment =
              Join(CommentText(candidates, i - 2) \o CommentText(candidates, i - 1),
                   <<",", " ">>)
         /\ CommentsDerived(candidates[i].children)

\* C7: the derived comment of the element at index i of the parent candidates
\* of its level is made of the non-empty cleaned texts of the candidates i-2
\* and i-1 that are comments, joined with ', ', the one of i-2 first; it is
\* empty when there is none, and nothing else enters it.
C7_CommentOfTwoPredecessors == Returned => CommentsDerived(htmlJson)

\* An element that is the fourth candidate of its level, after the comments
\* 'b', 'A' and 'b', has the comment 'A, b'.
C7_Witness ==
  /\ Returned
  /\ ~filteredHtmlData.isNull
  /\ Len(filteredHtmlData.nodes) >= 4
  /\ filteredHtmlData.nodes[1].type = "comment"
  /\ filteredHtmlData.nodes[1].content = <<"b">>
  /\ filteredHtmlData.nodes[4].type = "element"
  /\ filteredHtmlData.nodes[4].comment = <<"A", ",", " ", "b">>

\* No element of nodes, at any depth, has a class or a style attribute, and
\* none is a <style> element.
RECURSIVE NothingStyled(_)
NothingStyled(nodes) ==
  \A i \in 1..Len(nodes) :
    nodes[i].type = "element" =>
      /\ nodes[i].tagName # "style"
      /\ \A a \in 1..Len(nodes[i].attributes) :
           nodes[i].attributes[a].key \notin {"class", "style"}
      /\ NothingStyled(nodes[i].children)

\* C1: convertToSass returns null for an input in which no element has a
\* class or a style attribute and which has no <style> element.
C1_NullWhenNothingStyled ==
  (Returned /\ NothingStyled(html)) => result.kind = "null"

\* The <style> elements of the parsed tree, at any depth.
RECURSIVE StyleElements(_)
StyleElements(nodes) ==
  UNION { IF nodes[i].type # "element" THEN {}
          ELSE IF nodes[i].tagName = "style" THEN {nodes[i]}
          ELSE StyleElements(nodes[i].children) : i \in 1..Len(nodes) }

\* The <style> elements among the siblings of the parsed node id.
RECURSIVE SiblingStyles(_, _, _)
SiblingStyles(nodes, id, level) ==
  IF level = Len(id)
  THEN { i \in 1..Len(nodes) : TagNameOf(nodes[i]) = "style" }
  ELSE SiblingStyles(nodes[id[level]].children, id, level + 1)

\* C2: for every <style> element of the input, at the top level or nested,
\* the text getSassTree returns has a region '// #region STYLE #<n>', the text
\* of the element, '// #endregion' outside every selector block, with n = 1
\* when it is the only <style> of its level.
C2_StyleRegionAnywhere ==
  Returned =>
    \A e \in StyleElements(htmlJson) :
      \E j \in 1..(Len(sassTreeResult) - 2) :
        /\ sassTreeResult[j].t = "region"
        /\ sassTreeResult[j].id = e.id
        /\ Cardinality(SiblingStyles(htmlJson, e.id, 1)) = 1 =>
             sassTreeResult[j].s = <<"// #region STYLE #", "1", "\n">>
        /\ sassTreeResult[j + 1].t = "text"
        /\ sassTreeResult[j + 1].s = <<"\n">> \o e.children[1].content \o <<"\n">>
        /\ sassTreeResult[j + 2].t = "endregion"
        /\ OpenBlocks(sassTreeResult, j) = <<>>

\* The new options are the old ones with the given object shallow-merged:
\* a key of the object has the object's value, any other key its old value.
ShallowMerged(old, object, new) ==
  /\ DOMAIN new = DOMAIN old \cup DOMAIN object
  /\ \A k \in DOMAIN new :
       new[k] = IF k \in DOMAIN object THEN object[k] ELSE old[k]

\* C4 as claimed: every call made with an options object merges it into the
\* process-wide options, every other step leaves them alone; with Init, the
\* options are the defaults with the objects of all earlier calls merged in
\* call order.
C4_EveryCallMerges ==
  [][ IF pc' = "done" /\ options' # Null
      THEN ShallowMerged(defaultOptions, Val(options'), defaultOptions')
      ELSE defaultOptions' = defaultOptions ]_vars

\* C4, amended: only a call whose html is not the empty string merges its
\* options object.
C4_NonEmptyCallsMerge ==
  [][ IF pc' = "done" /\ options' # Null /\ html' # <<>>
      THEN ShallowMerged(defaultOptions, Val(options'), defaultOptions')
      ELSE defaultOptions' = defaultOptions ]_vars

\* A call without options has run with formatOutput false and with a
\* classNameOptions object that has a prefix only, both left by earlier calls.
C4_Witness ==
  /\ Called
  /\ html # <<>>
  /\ options = Null
  /\ defaultOptions.formatOutput = FALSE
  /\ DOMAIN defaultOptions.classNameOptions = {"prefix"}
  /\ defaultOptions.printComments = TRUE
  /\ result.kind = "string" /\ ~result.formatted

\* The html string is empty or has white space only.
Blank(h) ==
  \A i \in 1..Len(h) :
    h[i].type = "text" /\ \A c \in 1..Len(h[i].content) : h[i].content[c] = " "

\* C5: a call with an empty or white-space-only html returns null, leaves the
\* options unchanged and invokes neither the parser, the normalizer nor the
\* builder.
C5_BlankInputDoesNothing ==
  [][ (pc' = "done" /\ Blank(html')) =>
        /\ result'.kind = "null"
        /\ defaultOptions' = defaultOptions
        /\ invoked' \cap {"parse", "filterHtmlData", "getSassTree"} = {} ]_vars

\* C6: with useCommentBlocksAsClassName, the selector of a node with a
\* comment is '.' + prefix + the slug of the comment cut to
\* maxClassNameLength characters + suffix.
C6_OnlySlugTruncated ==
  (Called /\ defaultOptions.useCommentBlocksAsClassName) =>
    \A j \in 1..Len(sassTreeResult) :
      (sassTreeResult[j].t = "selector"
       /\ NormalizedNode(sassTreeResult[j].id).comment # <<>>) =>
        LET cno == defaultOptions.classNameOptions
            slugged == slug(NormalizedNode(sassTreeResult[j].id).comment,
                            "lowercase" \in DOMAIN cno /\ cno.lowercase,
                            IF "replaceWith" \in DOMAIN cno THEN cno.replaceWith
                            ELSE "-")
            kept == Min(Len(slugged), defaultOptions.maxClassNameLength)
        IN sassTreeResult[j].s =
             <<".">> \o StringField(cno, "prefix") \o SubSeq(slugged, 1, kept)
                     \o StringField(cno, "suffix")

\* A synthetic style node.
Synthetic(node) == TagNameOf(node) = "style" /\ TypeOf(node) = "undefined"

\* The nodes of a level are synthetic style nodes first, then elements that
\* have filterAttributes or a children list, and no other node.
Normalized(nodes) ==
  /\ \A i \in 1..Len(nodes) :
       \/ Synthetic(nodes[i])
       \/ /\ TypeOf(nodes[i]) = "element"
          /\ ~nodes[i].filterAttributes.isNull \/ "children" \in DOMAIN nodes[i]
  /\ \A i, j \in 1..Len(nodes) : (i < j /\ Synthetic(nodes[j])) => Synthetic(nodes[i])

\* C8: a non-null result of filterHtmlData holds synthetic style nodes first
\* and then element nodes only; no comment node is in it.
C8_OnlyStylesAndElements ==
  (Returned /\ ~filteredHtmlData.isNull) => Normalized(filteredHtmlData.nodes)

\* C10: two sibling divs that both emit a block under the positional fallback
\* name get different selectors.
C10_SiblingNamesDiffer ==
  Called =>
    \A i, j \in 1..Len(sassTreeResult) :
      ( /\ i < j
        /\ sassTreeResult[i].t = "selector" /\ sassTreeResult[j].t = "selector"
        /\ FallbackNamed(NormalizedNode(sassTreeResult[i].id))
        /\ FallbackNamed(NormalizedNode(sassTreeResult[j].id))
        /\ Len(sassTreeResult[i].id) = Len(sassTreeResult[j].id)
        /\ Ancestors(sassTreeResult[i].id) = Ancestors(sassTreeResult[j].id) )
      => sassTreeResult[i].s # sassTreeResult[j].s

====
